---- MODULE Spec2Model ----
(***************************************************************************)
(* A model of mibody/processor.py: the BodyData decoder (a list subclass   *)
(* whose constructor reads a stream in 18-byte blocks) and the BodyDataRow *)
(* record (a dict subclass with derived properties).                       *)
(*                                                                         *)
(* Representation of Python values:                                        *)
(*   - a block is the sequence of its 18 bytes; the code's block[i] is     *)
(*     At(block, i);                                                       *)
(*   - the floats n / 10 that the decoder stores (weight, body_fat,        *)
(*     muscle_mass) are represented by the integer n (tenths);             *)
(*   - a value rounded to two decimals (bmi) is represented in hundredths; *)
(*   - an exception is a record [type, msg], msg being the pieces of the   *)
(*     formatted message.                                                  *)
(***************************************************************************)
EXTENDS Integers, Sequences, FiniteSets, TLC

VARIABLES
    file_path_or_object,  \* the constructor's argument
    disk,                 \* what a path argument resolves to: "file", "missing"
    content,              \* the bytes behind the stream: full blocks and a tail
    file_object,          \* self.file_object: "None", "own" (opened here), "caller"
    stream_open,          \* whether the underlying stream is open
    offset,               \* number of full blocks the reads have consumed
    n_reads,              \* number of read() calls made
    self_rows,            \* the list itself: the appended BodyDataRow values
    pc,                   \* position inside __init__
    exc,                  \* the exception that left __init__, if any
    last_read,            \* the latest attribute read of self[0] and its outcome;
                          \* forgotten once written over (a property's outcome
                          \* after the second write)
    arguments,            \* the command line's options, when run as a script
    stderr,               \* the lines the script has printed to standard error
    main_pc               \* position inside the script's main block

vars == <<file_path_or_object, disk, content, file_object, stream_open, offset,
          n_reads, self_rows, pc, exc, last_read, arguments, stderr, main_pc>>

decoder_vars == <<file_path_or_object, disk, content, file_object, stream_open,
                  offset, n_reads, self_rows, pc, exc>>

row_vars == <<last_read>>

main_vars == <<arguments, stderr, main_pc>>

-----------------------------------------------------------------------------
(* Bounds of the model *)

\* longest stream, in full blocks
MaxBlocks == 2
\* longest trailing partial block, in bytes
MaxTail == 1
\* the heights 0..MaxSmallHeight (cm) and the weights 0..MaxSmallWeight (tenths
\* of a kg) are tried, besides the sample values of Heights and Weights
MaxSmallHeight == 2
MaxSmallWeight == 3

-----------------------------------------------------------------------------
(* Program constants *)

row_block_size == 18

-----------------------------------------------------------------------------
(* Blocks *)

At(block, i) == block[i + 1]

\* a block from the bytes the decoder looks at; fitness level, body fat, the
\* skipped byte, muscle mass and visceral fat are fixed sample values
MkBlock(b0, date, ga, height, weight10) ==
    << b0, date[1], date[2], date[3], date[4], date[5], date[6],
       ga, height, 3,
       weight10 \div 256, weight10 % 256,
       0, 143, 0, 1, 194, 5 >>

\* year-low, month, day, hour, minute, second
ValidDate == <<222, 1, 15, 10, 30, 0>>
BadDayDate == <<222, 2, 30, 10, 30, 0>>

\* leading bytes: 0 (skipped block), 7 (year 2014), 40 (year 10462, too large)
Guards == {0, 7, 40}

BlockSet ==
    { MkBlock(g, d, 149, 175, w) :
        g \in Guards, d \in {ValidDate, BadDayDate}, w \in {666, 667} }

Contents ==
    { [blocks |-> b, tail |-> t] :
        b \in UNION { [1..n -> BlockSet] : n \in 0..MaxBlocks }, t \in 0..MaxTail }

-----------------------------------------------------------------------------
(* datetime.datetime(year, month, day, hour, minute, second) *)

IsLeap(year) == (year % 4 = 0) /\ ((year % 100 # 0) \/ (year % 400 = 0))

DaysInMonth(year, month) ==
    IF month = 2 THEN (IF IsLeap(year) THEN 29 ELSE 28)
    ELSE IF month \in {4, 6, 9, 11} THEN 30 ELSE 31

\* the arguments datetime.datetime accepts; any other raise ValueError
DatetimeOk(year, month, day, hour, minute, second) ==
    /\ year >= 1 /\ year <= 9999
    /\ month >= 1 /\ month <= 12
    /\ day >= 1 /\ day <= DaysInMonth(year, month)
    /\ hour >= 0 /\ hour <= 23
    /\ minute >= 0 /\ minute <= 59
    /\ second >= 0 /\ second <= 59

-----------------------------------------------------------------------------
(* BodyData._process: the decoding of one block *)

\* a year that keeps only its second assignment
Year_low_byte_only(block) == At(block, 1)

Year(block) == At(block, 0) * 256 + At(block, 1)

BlockDateOk(block) ==
    DatetimeOk(Year(block), At(block, 2), At(block, 3), At(block, 4),
               At(block, 5), At(block, 6))

\* block[7] & 128
Bit7(b) == (b \div 128) % 2

Gender(block) == IF Bit7(At(block, 7)) = 0 THEN "F" ELSE "M"

\* an age that keeps the gender bit
Age_unmasked(block) == At(block, 7)

\* block[7] & ~128
Age(block) == At(block, 7) - 128 * Bit7(At(block, 7))

\* a decoder that takes muscle mass from the two bytes after body fat
DecodeRow_muscle_mass_at_14(block) ==
    [ date_time     |-> << Year(block), At(block, 2), At(block, 3),
                           At(block, 4), At(block, 5), At(block, 6) >>,
      gender        |-> Gender(block),
      age           |-> Age(block),
      height        |-> At(block, 8),
      fitness_level |-> At(block, 9),
      weight        |-> At(block, 10) * 256 + At(block, 11),
      body_fat      |-> At(block, 12) * 256 + At(block, 13),
      muscle_mass   |-> At(block, 14) * 256 + At(block, 15),
      visceral_fat  |-> At(block, 17) ]

DecodeRow(block) ==
    [ date_time     |-> << Year(block), At(block, 2), At(block, 3),
                           At(block, 4), At(block, 5), At(block, 6) >>,
      gender        |-> Gender(block),
      age           |-> Age(block),
      height        |-> At(block, 8),
      fitness_level |-> At(block, 9),
      weight        |-> At(block, 10) * 256 + At(block, 11),
      body_fat      |-> At(block, 12) * 256 + At(block, 13),
      muscle_mass   |-> At(block, 15) * 256 + At(block, 16),
      visceral_fat  |-> At(block, 17) ]

\* a decoder that decodes every full block
BlockTruthy_any(block) == TRUE

\* the guard of the decoding branch: if block[0]
BlockTruthy(block) == At(block, 0) # 0

-----------------------------------------------------------------------------
(* Exceptions *)

NoExc == [type |-> "none", msg |-> <<>>]

\* str(file_path_or_object): the path itself, or the repr of the object
ArgStr(arg) == arg.value

InvalidInputExc ==
    [type |-> "TypeError",
     msg |-> <<"'file_path_or_object' must be valid file path or file object">>]

\* a message formatted from self.file_object, still None, instead of the path
NotFoundExc_file_object(arg) ==
    [type |-> "TypeError", msg |-> <<"File, '", "None", "' not found">>]

NotFoundExc(arg) ==
    [type |-> "TypeError", msg |-> <<"File, '", ArgStr(arg), "' not found">>]

ReadFailedExc ==
    [type |-> "ValueError",
     msg |-> <<"Read failed, please ensure the file object is opened as binary">>]

EmptyExc(arg) ==
    [type |-> "ValueError",
     msg |-> <<"File, '", ArgStr(arg), "' has yielded no weigh-ins">>]

\* raised by datetime.datetime for a field out of range (the message, which
\* names the field, is not modelled)
DatetimeExc == [type |-> "ValueError", msg |-> <<"datetime field out of range">>]

\* raised by block[0] << 8 when block is a str
ShiftExc ==
    [type |-> "TypeError", msg |-> <<"unsupported operand type(s) for <<">>]

-----------------------------------------------------------------------------
(* The constructor's arguments *)

Paths == {"tests/BODYDATA.TXT", "tests/NON_FILE.TXT"}

EmptyContent == [blocks |-> <<>>, tail |-> 0]

\* a path string
StrArg(p) == [type |-> "str", value |-> p, mode |-> "rb", decodable |-> TRUE]

\* an object with a read method: a stream opened by the caller in binary ("rb")
\* or text ("r") mode; a text stream may hold bytes its encoding cannot decode
FileArg(m, d) ==
    [type |-> "file", value |-> "<file object>", mode |-> m, decodable |-> d]

\* anything else, such as None
OtherArg == [type |-> "other", value |-> "None", mode |-> "rb", decodable |-> TRUE]

isinstance_str(arg) == arg.type = "str"

\* a constructor that takes any non-string for a stream
hasattr_read_unchecked(arg) == TRUE

hasattr_read(arg) == arg.type = "file"

\* the class used as a library: no command line, nothing printed
NoMain == arguments = [input |-> "", format |-> "", output |-> ""]
          /\ stderr = <<>> /\ main_pc = "none"

\* last_read before any read; writes counts the writes made since the read
NoRead == [item |-> "none", value |-> 0, raised |-> "none", writes |-> 0]

Init ==
    /\ \/ \E p \in Paths :
            /\ file_path_or_object = StrArg(p)
            /\ \/ disk = "missing" /\ content = EmptyContent
               \/ disk = "file" /\ content \in Contents
            /\ stream_open = FALSE
       \/ /\ file_path_or_object = FileArg("rb", TRUE)
          /\ disk = "missing"
          /\ content \in Contents
          /\ stream_open = TRUE
       \/ \E d \in BOOLEAN :
            /\ file_path_or_object = FileArg("r", d)
            /\ disk = "missing"
            /\ content \in Contents
            /\ (d \/ content # EmptyContent)
            /\ stream_open = TRUE
       \/ /\ file_path_or_object = OtherArg
          /\ disk = "missing"
          /\ content = EmptyContent
          /\ stream_open = FALSE
    /\ file_object = "None"
    /\ offset = 0
    /\ n_reads = 0
    /\ self_rows = <<>>
    /\ pc = "init"
    /\ exc = NoExc
    /\ last_read = NoRead
    /\ NoMain

-----------------------------------------------------------------------------
(* BodyData.__init__ *)

Raise(e) == pc' = "raised" /\ exc' = e

\* the check of the argument's type
CheckArgument ==
    /\ pc = "init"
    /\ IF isinstance_str(file_path_or_object)
       THEN pc' = "open" /\ UNCHANGED <<file_object, exc>>
       ELSE IF hasattr_read(file_path_or_object)
       THEN pc' = "open" /\ file_object' = "caller" /\ UNCHANGED exc
       ELSE Raise(InvalidInputExc) /\ UNCHANGED file_object
    /\ UNCHANGED <<file_path_or_object, disk, content, stream_open, offset,
                   n_reads, self_rows, row_vars, main_vars>>

\* if not self.file_object: open(self.file_path_or_object, 'rb')
OpenFile ==
    /\ pc = "open"
    /\ IF file_object = "None"
       THEN IF disk = "file"
            THEN /\ file_object' = "own"
                 /\ stream_open' = TRUE
                 /\ pc' = "process"
                 /\ UNCHANGED exc
            ELSE /\ Raise(NotFoundExc(file_path_or_object))
                 /\ UNCHANGED <<file_object, stream_open>>
       ELSE pc' = "process" /\ UNCHANGED <<file_object, stream_open, exc>>
    /\ UNCHANGED <<file_path_or_object, disk, content, offset, n_reads,
                   self_rows, row_vars, main_vars>>

\* self.file_object.read(self.row_block_size) at the stream's position
ReadResult ==
    IF file_path_or_object.mode = "r" /\ ~file_path_or_object.decodable
    THEN [kind |-> "UnicodeDecodeError", len |-> 0, block |-> <<>>]
    ELSE IF offset < Len(content.blocks)
    THEN [kind |-> IF file_path_or_object.mode = "r" THEN "str" ELSE "bytes",
          len |-> row_block_size, block |-> content.blocks[offset + 1]]
    ELSE [kind |-> IF file_path_or_object.mode = "r" THEN "str" ELSE "bytes",
          len |-> content.tail, block |-> <<>>]

\* one iteration of the loop of _process
ReadBlock ==
    /\ pc = "process"
    /\ n_reads' = n_reads + 1
    /\ LET r == ReadResult IN
       IF r.kind = "UnicodeDecodeError"
       THEN Raise(ReadFailedExc) /\ UNCHANGED <<offset, self_rows>>
       ELSE IF r.len # row_block_size
       THEN pc' = "check" /\ UNCHANGED <<offset, self_rows, exc>>
       ELSE /\ offset' = offset + 1
            /\ IF r.kind = "str"
               \* a one-character str is truthy, and block[0] << 8 fails
               THEN Raise(ShiftExc) /\ UNCHANGED self_rows
               ELSE IF ~BlockTruthy(r.block)
               THEN UNCHANGED <<pc, exc, self_rows>>
               ELSE IF ~BlockDateOk(r.block)
               THEN Raise(DatetimeExc) /\ UNCHANGED self_rows
               ELSE /\ self_rows' = Append(self_rows, DecodeRow(r.block))
                    /\ UNCHANGED <<pc, exc>>
    /\ UNCHANGED <<file_path_or_object, disk, content, file_object,
                   stream_open, row_vars, main_vars>>

\* a _process without its final check
CheckEmpty_never_raises ==
    /\ pc = "check"
    /\ pc' = "close"
    /\ UNCHANGED <<file_path_or_object, disk, content, file_object,
                   stream_open, offset, n_reads, self_rows, exc, row_vars, main_vars>>

\* if not len(self): raise ValueError(...)
CheckEmpty ==
    /\ pc = "check"
    /\ IF Len(self_rows) = 0
       THEN Raise(EmptyExc(file_path_or_object))
       ELSE pc' = "close" /\ UNCHANGED exc
    /\ UNCHANGED <<file_path_or_object, disk, content, file_object,
                   stream_open, offset, n_reads, self_rows, row_vars, main_vars>>

\* self.file_object.close() after self._process() has returned
Close ==
    /\ pc = "close"
    /\ stream_open' = FALSE
    /\ pc' = "returned"
    /\ UNCHANGED <<file_path_or_object, disk, content, file_object, offset,
                   n_reads, self_rows, exc, row_vars, main_vars>>

Next == CheckArgument \/ OpenFile \/ ReadBlock \/ CheckEmpty \/ Close

Spec == Init /\ [][Next]_vars

-----------------------------------------------------------------------------
(* BodyDataRow: the derived properties *)

\* round(num / den) for den > 0: Python rounds a tie to the even neighbour
RoundHalfEven(num, den) ==
    LET q == num \div den
        r == num % den
    IN  IF 2 * r > den \/ (2 * r = den /\ q % 2 = 1) THEN q + 1 ELSE q

Returned(v) == [value |-> v, raised |-> "none"]

Raised(e) == [value |-> 0, raised |-> e]

\* __getattribute__ for an item that is a key of the dict: self[item]
attr(r, item) == r[item]

\* in tenths of a kg
weight_kg(r) == attr(r, "weight")

height_cm(r) == attr(r, "height")

\* 10 * weight_kg + 6.25 * height_cm - 5 * age, in quarters; every term is a
\* multiple of 0.25 that binary64 holds exactly (10 * (n / 10) is n)
unmodified_bmr4(r) == 4 * weight_kg(r) + 25 * height_cm(r) - 20 * attr(r, "age")

\* a bmr without the else branch
bmr_unknown_gender_kept(r) ==
    LET g == attr(r, "gender")
        u == unmodified_bmr4(r)
    IN  Returned(RoundHalfEven(IF g = "M" THEN u + 20
                               ELSE IF g = "F" THEN u - 644 ELSE u, 4))

bmr(r) ==
    LET g == attr(r, "gender")
        u == unmodified_bmr4(r)
    IN  Returned(RoundHalfEven(IF g = "M" THEN u + 20
                               ELSE IF g = "F" THEN u - 644 ELSE 0, 4))

\* When weight_kg / height_m ** 2 is exactly halfway between two hundredths,
\* round(x, 2) goes by the side on which the binary64 quotient x falls: -1
\* below, 1 above, 0 when x is the tie itself. Of the operands of this model
\* only 0.3 / 0.08 ** 2 (46.875) is off the tie: it evaluates to less.
Binary64Side(weight10, height) == IF <<weight10, height>> = <<3, 8>> THEN -1 ELSE 0

\* a bmi that divides by height_m instead of its square
bmi_height_not_squared(r) ==
    LET n == weight_kg(r)
        h == height_cm(r)
    IN  IF h = 0 THEN Raised("ZeroDivisionError")
        ELSE Returned(RoundHalfEven(1000 * n, h))

\* round(weight_kg / height_m ** 2, 2), in hundredths; the quotient is
\* 100000 * weight10 / height ^ 2 hundredths
bmi(r) ==
    LET n == weight_kg(r)
        h == height_cm(r)
        num == 100000 * n
        den == h * h
    IN  IF h = 0 THEN Raised("ZeroDivisionError")
        ELSE IF 2 * (num % den) = den /\ Binary64Side(n, h) # 0
        THEN Returned((num \div den) + (IF Binary64Side(n, h) > 0 THEN 1 ELSE 0))
        ELSE Returned(RoundHalfEven(num, den))

\* bands closed at their upper end
classification_closed_bands(r) ==
    LET b == bmi(r) IN
    IF b.raised # "none" THEN b
    ELSE IF b.value <= 1850 THEN Returned("underweight")
    ELSE IF 1850 < b.value /\ b.value <= 2500 THEN Returned("healthy weight")
    ELSE IF 2500 < b.value /\ b.value <= 3000 THEN Returned("overweight")
    ELSE IF 3000 < b.value /\ b.value <= 3500 THEN Returned("class I obesity")
    ELSE IF 3500 < b.value /\ b.value <= 4000 THEN Returned("class II obesity")
    ELSE IF b.value > 4000 THEN Returned("class III obesity")
    ELSE Returned("")

classification(r) ==
    LET b == bmi(r) IN
    IF b.raised # "none" THEN b
    ELSE IF b.value < 1850 THEN Returned("underweight")
    ELSE IF 1850 <= b.value /\ b.value < 2500 THEN Returned("healthy weight")
    ELSE IF 2500 <= b.value /\ b.value < 3000 THEN Returned("overweight")
    ELSE IF 3000 <= b.value /\ b.value < 3500 THEN Returned("class I obesity")
    ELSE IF 3500 <= b.value /\ b.value < 4000 THEN Returned("class II obesity")
    ELSE IF b.value >= 4000 THEN Returned("class III obesity")
    ELSE Returned("")

\* the properties read below; super().__getattribute__ resolves them
Properties == {"bmr", "bmi", "classification"}

\* a property that keeps the value it computed first
getattribute_cached(r, item) ==
    IF item \in DOMAIN r THEN Returned(attr(r, item))
    ELSE IF last_read.item = item
    THEN [value |-> last_read.value, raised |-> last_read.raised]
    ELSE IF item = "bmr" THEN bmr(r)
    ELSE IF item = "bmi" THEN bmi(r)
    ELSE classification(r)

\* BodyDataRow.__getattribute__
getattribute(r, item) ==
    IF item \in DOMAIN r THEN Returned(attr(r, item))
    ELSE IF item = "bmr" THEN bmr(r)
    ELSE IF item = "bmi" THEN bmi(r)
    ELSE classification(r)

-----------------------------------------------------------------------------
(* Use of a record after construction: body_data[0][key] = value and        *)
(* body_data[0].item                                                        *)

Heights == (0..MaxSmallHeight) \cup {8, 100, 175}

Weights == (0..MaxSmallWeight) \cup
           {185, 250, 300, 350, 400, 560, 666, 667, 770, 920, 1080, 1230}

\* gender/age bytes: male 21, male 127, female 21
GenderAges == {149, 255, 21}

\* the first record of the sample file (175 cm, 66.7 kg), for each gender/age
RowBlocks == { MkBlock(7, ValidDate, ga, 175, 667) : ga \in GenderAges }

\* the values the caller stores under a key
Stored(key) ==
    IF key = "gender" THEN {"M", "F", "X"}
    ELSE IF key = "weight" THEN Weights
    ELSE Heights

\* the state after BodyData(path) has returned for a file of one block
RowInit ==
    /\ file_path_or_object = StrArg("tests/BODYDATA.TXT")
    /\ disk = "file"
    /\ \E b \in RowBlocks :
          /\ content = [blocks |-> <<b>>, tail |-> 0]
          /\ self_rows = <<DecodeRow(b)>>
    /\ file_object = "own"
    /\ stream_open = FALSE
    /\ offset = 1
    /\ n_reads = 2
    /\ pc = "returned"
    /\ exc = NoExc
    /\ last_read = NoRead
    /\ NoMain

\* body_data[0][key] = value: dict.__setitem__, inherited
SetItem(key, value) ==
    /\ pc = "returned"
    /\ self_rows' = [self_rows EXCEPT ![1][key] = value]
    /\ last_read' = IF last_read.item \in Properties /\ last_read.writes = 0
                    THEN [last_read EXCEPT !.writes = 1]
                    ELSE NoRead
    /\ UNCHANGED <<file_path_or_object, disk, content, file_object,
                   stream_open, offset, n_reads, pc, exc, main_vars>>

\* body_data[0].item
GetAttr(item) ==
    /\ pc = "returned"
    /\ LET res == getattribute(self_rows[1], item) IN
       last_read' = [item |-> item, value |-> res.value, raised |-> res.raised,
                     writes |-> 0]
    /\ UNCHANGED <<decoder_vars, main_vars>>

RowNext ==
    \/ \E key \in {"gender", "weight", "height"} :
         \E value \in Stored(key) : SetItem(key, value)
    \/ \E item \in Properties \cup {"gender", "age", "height", "weight"} :
         GetAttr(item)

RowSpec == RowInit /\ [][RowNext]_vars

-----------------------------------------------------------------------------
(* Properties of the decoder, checked under Spec *)

\* a stream of bytes is being, or has been, read
ByteStream == file_object # "None" /\ file_path_or_object.mode = "rb"

\* the full blocks the reads have returned so far
Consumed == SubSeq(content.blocks, 1, offset)

RECURSIVE ExpectedRows(_)
\* one row for every block of bs whose first byte is not zero, in order
ExpectedRows(bs) ==
    IF bs = <<>> THEN <<>>
    ELSE (IF Head(bs)[1] # 0 THEN <<DecodeRow(Head(bs))>> ELSE <<>>)
         \o ExpectedRows(Tail(bs))

\* the consumed blocks with a non-zero first byte whose bytes 0..6 are no date
BadDates == { i \in 1..offset : content.blocks[i][1] # 0
                                /\ ~BlockDateOk(content.blocks[i]) }

\* C1 as stated: for any byte stream the container holds exactly one record
\* for every full block read whose first byte is non-zero, in stream order,
\* whatever the other bytes of the block are.
C1_OneRowPerNonZeroBlock ==
    ByteStream => self_rows = ExpectedRows(Consumed)

\* C1, amended: for any byte stream, the full blocks are read in order up to
\* the first short read, which ends the loop without an error; as long as
\* every block with a non-zero first byte holds a valid date-time in bytes
\* 0..6, the container holds exactly one record per such block, in stream
\* order, and none for a block with a zero first byte; the first block with a
\* non-zero first byte and an invalid date-time ends construction with the
\* ValueError of datetime, the records before it having been appended.
C1_OneRowPerValidNonZeroBlock ==
    ByteStream =>
        /\ pc = "process" => n_reads = offset
        /\ pc \in {"check", "close", "returned"} =>
              offset = Len(content.blocks) /\ n_reads = offset + 1
        /\ BadDates = {} =>
              /\ self_rows = ExpectedRows(Consumed)
              /\ pc = "raised" =>
                    /\ self_rows = <<>>
                    /\ offset = Len(content.blocks) /\ n_reads = offset + 1
                    /\ exc.msg[3] = "' has yielded no weigh-ins"
        /\ BadDates # {} =>
              /\ BadDates = {offset}
              /\ pc = "raised" /\ exc.type = "ValueError"
              /\ exc.msg = <<"datetime field out of range">>
              /\ self_rows = ExpectedRows(SubSeq(content.blocks, 1, offset - 1))

\* a stream of a skipped block, a decoded block and a partial block, decoded
C1_Witness ==
    /\ ByteStream /\ pc = "returned"
    /\ Len(content.blocks) = 2 /\ content.tail = 1
    /\ content.blocks[1][1] = 0 /\ content.blocks[2][1] = 7
    /\ self_rows = <<DecodeRow(content.blocks[2])>>

\* a read has returned fewer than row_block_size bytes or characters
ShortReadSeen ==
    /\ file_object # "None"
    /\ file_path_or_object.mode = "rb" \/ file_path_or_object.decodable
    /\ n_reads = offset + 1

\* C2: a decode pass that ends with no record fails with the ValueError
\* "File, '<argument>' has yielded no weigh-ins", and a constructor that
\* returns has at least one record.
C2_EmptyDataset ==
    /\ pc \in {"close", "returned"} => Len(self_rows) >= 1
    /\ (ShortReadSeen /\ Len(self_rows) = 0 /\ pc # "check") =>
          /\ pc = "raised"
          /\ exc = [type |-> "ValueError",
                    msg |-> <<"File, '", file_path_or_object.value,
                              "' has yielded no weigh-ins">>]

\* a file of two blocks with a zero first byte has yielded no weigh-ins
C2_Witness ==
    /\ file_path_or_object = StrArg("tests/BODYDATA.TXT")
    /\ Len(content.blocks) = 2
    /\ content.blocks[1][1] = 0 /\ content.blocks[2][1] = 0
    /\ n_reads = 3
    /\ pc = "raised" /\ exc.type = "ValueError"

\* C3 as stated: a stream the constructor opened itself is closed when the
\* constructor returns and when it fails for want of records.
C3_OwnStreamClosed ==
    ( /\ file_object = "own"
      /\ \/ pc = "returned"
         \/ pc = "raised" /\ exc = EmptyExc(file_path_or_object) )
    => ~stream_open

\* C4 as stated: a stream supplied by the caller is still open when the
\* constructor has returned or raised.
C4_CallerStreamLeftOpen ==
    (file_object = "caller" /\ pc \in {"returned", "raised"}) => stream_open

\* C9: a path that names no file ends the constructor with the TypeError
\* "File, '<path>' not found", before any read and with nothing decoded.
C9_FileNotFound ==
    ( /\ file_path_or_object.type = "str" /\ disk = "missing"
      /\ pc \notin {"init", "open"} )
    => /\ pc = "raised"
       /\ exc = [type |-> "TypeError",
                 msg |-> <<"File, '", file_path_or_object.value, "' not found">>]
       /\ n_reads = 0 /\ self_rows = <<>>
       /\ file_object = "None" /\ ~stream_open

C9_Witness ==
    /\ file_path_or_object = StrArg("tests/NON_FILE.TXT")
    /\ disk = "missing"
    /\ pc = "raised"
    /\ exc.msg = <<"File, '", "tests/NON_FILE.TXT", "' not found">>

\* C10: an argument that is no string and has no read method ends the
\* constructor with a TypeError before a stream is opened or read.
C10_InvalidInput ==
    (file_path_or_object.type = "other" /\ pc # "init")
    => /\ pc = "raised"
       /\ exc.type = "TypeError"
       /\ exc.msg = <<"'file_path_or_object' must be valid file path or file object">>
       /\ n_reads = 0 /\ ~stream_open /\ file_object = "None"
       /\ self_rows = <<>>

C10_Witness ==
    /\ file_path_or_object = OtherArg
    /\ pc = "raised" /\ exc.type = "TypeError"
    /\ n_reads = 0

-----------------------------------------------------------------------------
(* Properties of a record, checked under RowSpec *)

\* item has been read and the record has not been written since
FreshRead(item) == last_read.item = item /\ last_read.writes = 0

Abs(x) == IF x < 0 THEN -x ELSE x

\* k is num / den rounded to the nearest integer, a tie going to the even one
IsRoundHalfEven(k, num, den) ==
    /\ 2 * Abs(den * k - num) <= den
    /\ 2 * Abs(den * k - num) = den => k % 2 = 0

\* C5: bmr is 10 * weight_kg + 6.25 * height_cm - 5 * age, plus 5 for gender
\* M and minus 161 for gender F, rounded half to even; for any other gender
\* it is 0. (The sums are in quarters; weight is in tenths of a kg.)
C5_Bmr ==
    FreshRead("bmr") =>
        LET r == self_rows[1]
            u == 4 * r.weight + 25 * r.height - 20 * r.age
        IN  /\ last_read.raised = "none"
            /\ r.gender = "M" => IsRoundHalfEven(last_read.value, u + 20, 4)
            /\ r.gender = "F" => IsRoundHalfEven(last_read.value, u - 644, 4)
            /\ r.gender \notin {"M", "F"} => last_read.value = 0

\* the first sample record made female: bmr 1495
C5_Witness ==
    /\ FreshRead("bmr")
    /\ self_rows[1].gender = "F" /\ self_rows[1].age = 21
    /\ self_rows[1].height = 175 /\ self_rows[1].weight = 667
    /\ last_read.value = 1495

\* C6 as stated: for every height and weight a block can hold, reading bmi
\* does not fail and yields weight_kg / (height_cm / 100) ^ 2 rounded half to
\* even to two decimals.
C6_BmiDefinedHalfEven ==
    FreshRead("bmi") =>
        /\ last_read.raised = "none"
        /\ IsRoundHalfEven(last_read.value, 100000 * self_rows[1].weight,
                           self_rows[1].height * self_rows[1].height)

\* C6, amended: for a height of 1..255 reading bmi does not fail and yields a
\* two-decimal value nearest to weight_kg / (height_cm / 100) ^ 2, that is,
\* within 0.005 of it: the one nearest value, or, when the quotient is exactly
\* halfway between two of them, either of the two (the binary floating-point
\* quotient decides, not the evenness); for a height of 0 reading bmi raises
\* ZeroDivisionError.
C6_BmiNearest ==
    FreshRead("bmi") =>
        LET n == self_rows[1].weight
            h == self_rows[1].height
        IN  IF h = 0
            THEN last_read.raised = "ZeroDivisionError"
            ELSE /\ last_read.raised = "none"
                 /\ 2 * Abs(last_read.value * h * h - 100000 * n) <= h * h

\* 0.3 kg at 8 cm: the quotient is 46.875 and bmi is 46.87, the odd neighbour
C6_Witness ==
    /\ FreshRead("bmi")
    /\ self_rows[1].weight = 3 /\ self_rows[1].height = 8
    /\ last_read.raised = "none" /\ last_read.value = 4687

\* C7: classification maps every bmi to exactly one of six labels, the bands
\* being closed below and open above, so that 18.5, 25, 30, 35 and 40 belong
\* to the upper band; the empty string is never returned. (bmi in hundredths.)
C7_Classification ==
    FreshRead("classification") =>
        LET b == bmi(self_rows[1])
            v == last_read.value
        IN  /\ last_read.raised = b.raised
            /\ b.raised = "none" =>
                  /\ v \in {"underweight", "healthy weight", "overweight",
                            "class I obesity", "class II obesity",
                            "class III obesity"}
                  /\ v = "underweight" <=> b.value < 1850
                  /\ v = "healthy weight" <=> (1850 <= b.value /\ b.value < 2500)
                  /\ v = "overweight" <=> (2500 <= b.value /\ b.value < 3000)
                  /\ v = "class I obesity" <=> (3000 <= b.value /\ b.value < 3500)
                  /\ v = "class II obesity" <=> (3500 <= b.value /\ b.value < 4000)
                  /\ v = "class III obesity" <=> b.value >= 4000

\* 18.5 kg at 100 cm: bmi is exactly 18.5, the lower end of healthy weight
C7_Witness ==
    /\ FreshRead("classification")
    /\ self_rows[1].weight = 185 /\ self_rows[1].height = 100
    /\ bmi(self_rows[1]).value = 1850
    /\ last_read.value = "healthy weight"

\* C8: whatever has been written to the record's fields, a read of a field
\* returns the value the record holds now, and a read of bmr, bmi or
\* classification returns the derivation of the values it holds now.
C8_NeverCached ==
    (last_read.item # "none" /\ last_read.writes = 0) =>
        LET r == self_rows[1]
            out == [value |-> last_read.value, raised |-> last_read.raised]
        IN  /\ last_read.item \in DOMAIN r => out = Returned(r[last_read.item])
            /\ last_read.item = "bmr" => out = bmr(r)
            /\ last_read.item = "bmi" => out = bmi(r)
            /\ last_read.item = "classification" => out = classification(r)

\* the first sample record, decoded as male, read as female after a write
C8_Witness ==
    /\ FreshRead("bmr")
    /\ Gender(content.blocks[1]) = "M" /\ self_rows[1].gender = "F"
    /\ self_rows[1].weight = 667 /\ self_rows[1].height = 175
    /\ self_rows[1].age = 21
    /\ last_read.value = 1495

-----------------------------------------------------------------------------
(* Further properties of the decoder, checked under Spec *)

\* the stream was opened in text mode: read returns str
TextStream == file_object # "None" /\ file_path_or_object.mode = "r"

\* C11 as stated: when the stream is a text stream, whether its read fails to
\* decode or returns a chunk of text, the constructor ends with the ValueError
\* "Read failed, please ensure the file object is opened as binary" and with
\* no other error.
C11_TextStreamReadFailed ==
    (TextStream /\ n_reads >= 1 /\ pc \in {"raised", "returned"}) =>
        /\ pc = "raised"
        /\ exc = [type |-> "ValueError",
                  msg |-> <<"Read failed, please ensure the file object is opened as binary">>]

\* the blocks read so far that have a non-zero first byte, in order
RECURSIVE NonZeroBlocks(_)
NonZeroBlocks(bs) ==
    IF bs = <<>> THEN <<>>
    ELSE (IF Head(bs)[1] # 0 THEN <<Head(bs)>> ELSE <<>>) \o NonZeroBlocks(Tail(bs))

\* the block that the i-th record was decoded from
SourceBlock(i) == NonZeroBlocks(Consumed)[i]

\* C12 as stated: byte 0 is a guard only; the year is (byte 1 << 8) + byte 2
\* and month, day, hour, minute, second are bytes 3, 4, 5, 6, 7.
C12_DateFromOffset1 ==
    ByteStream =>
        \A i \in 1..Len(self_rows) :
            LET b == SourceBlock(i) IN
            self_rows[i].date_time =
                << At(b, 1) * 256 + At(b, 2), At(b, 3), At(b, 4), At(b, 5),
                   At(b, 6), At(b, 7) >>

\* C12, amended: byte 0 is the guard and also the high byte of the year: the
\* year is (byte 0 << 8) + byte 1 and month, day, hour, minute, second are
\* bytes 2, 3, 4, 5, 6.
C12_DateFromOffset0 ==
    ByteStream =>
        \A i \in 1..Len(self_rows) :
            LET b == SourceBlock(i) IN
            self_rows[i].date_time =
                << At(b, 0) * 256 + At(b, 1), At(b, 2), At(b, 3), At(b, 4),
                   At(b, 5), At(b, 6) >>

\* the bytes 07 DE 01 0F 0A 1E 00 decoded as 2014-01-15 10:30:00
C12_Witness ==
    /\ ByteStream /\ pc = "returned"
    /\ Len(self_rows) >= 1
    /\ At(SourceBlock(1), 0) = 7 /\ At(SourceBlock(1), 1) = 222
    /\ self_rows[1].date_time = <<2014, 1, 15, 10, 30, 0>>

-----------------------------------------------------------------------------
(* The layout of a block: the constructor run on files that cover every     *)
(* gender/age byte and several values of the byte at index 14               *)

\* the values tried for the byte at index 14
SkippedBytes == {0, 1, 255}

\* a sample block with the given first byte, date, gender/age byte and byte 14
LayoutBlock(b0, date, ga, skipped) ==
    [MkBlock(b0, date, ga, 175, 667) EXCEPT ![15] = skipped]

\* files of one block for every gender/age byte, and files of up to MaxBlocks
\* blocks that differ in their first byte, their date and their byte 14
LayoutContents ==
    { [blocks |-> <<LayoutBlock(7, ValidDate, ga, 0)>>, tail |-> 0] :
        ga \in 0..255 }
    \cup
    { [blocks |-> b, tail |-> 0] :
        b \in UNION { [1..n -> { LayoutBlock(g, d, 149, k) :
                                   g \in {0, 7}, d \in {ValidDate, BadDayDate},
                                   k \in SkippedBytes }]
                      : n \in 0..MaxBlocks } }

LayoutInit ==
    /\ file_path_or_object = StrArg("tests/BODYDATA.TXT")
    /\ disk = "file"
    /\ content \in LayoutContents
    /\ stream_open = FALSE
    /\ file_object = "None"
    /\ offset = 0
    /\ n_reads = 0
    /\ self_rows = <<>>
    /\ pc = "init"
    /\ exc = NoExc
    /\ last_read = NoRead
    /\ NoMain

LayoutSpec == LayoutInit /\ [][Next]_vars

\* C14: for every value of the gender/age byte the gender is M exactly when
\* bit 7 is set and F exactly when it is clear, the age is the low 7 bits, so
\* it lies in 0..127, and gender bit and age give the byte back.
C14_GenderAge ==
    ByteStream =>
        \A i \in 1..Len(self_rows) :
            LET ga == At(SourceBlock(i), 7)
                r == self_rows[i]
            IN  /\ r.gender \in {"M", "F"}
                /\ r.gender = "M" <=> ga >= 128
                /\ r.gender = "F" <=> ga < 128
                /\ r.age = ga % 128
                /\ r.age \in 0..127
                /\ (IF r.gender = "M" THEN 128 ELSE 0) + r.age = ga

\* the byte 0x95 of the first sample record: male, 21
C14_Witness ==
    /\ ByteStream /\ pc = "returned"
    /\ Len(self_rows) = 1
    /\ At(SourceBlock(1), 7) = 149
    /\ self_rows[1].gender = "M" /\ self_rows[1].age = 21

\* block with its byte at index 14 replaced by 0
Mask14(block) == [block EXCEPT ![15] = 0]

MaskAll14(bs) == [i \in 1..Len(bs) |-> Mask14(bs[i])]

\* C15: the outcome of decoding is determined by the blocks with byte 14
\* blanked, so streams that differ only there decode alike: the records, the
\* position and the error are those of the blanked blocks; body fat is
\* (b12 << 8) + b13, muscle mass (b15 << 8) + b16, both in tenths, and
\* visceral fat is b17.
C15_Byte14Skipped ==
    ByteStream =>
        /\ LET blanked == MaskAll14(Consumed) IN
           /\ \A i \in 1..Len(self_rows) :
                 self_rows[i] = DecodeRow(NonZeroBlocks(blanked)[i])
           /\ pc \in {"check", "close", "returned"} =>
                 /\ offset = Len(content.blocks)
                 /\ Len(self_rows) = Len(NonZeroBlocks(blanked))
           /\ pc = "raised" =>
                 \/ /\ exc = DatetimeExc
                    /\ ~BlockDateOk(blanked[offset])
                    /\ Len(self_rows) = Len(NonZeroBlocks(blanked)) - 1
                 \/ /\ exc = EmptyExc(file_path_or_object)
                    /\ offset = Len(content.blocks)
                    /\ NonZeroBlocks(blanked) = <<>>
        /\ \A i \in 1..Len(self_rows) :
              LET b == SourceBlock(i) IN
              /\ self_rows[i].body_fat = At(b, 12) * 256 + At(b, 13)
              /\ self_rows[i].muscle_mass = At(b, 15) * 256 + At(b, 16)
              /\ self_rows[i].visceral_fat = At(b, 17)

\* a file of two blocks whose bytes at index 14 are 255 and 1, decoded
C15_Witness ==
    /\ ByteStream /\ pc = "returned"
    /\ Len(content.blocks) = 2 /\ Len(self_rows) = 2
    /\ At(content.blocks[1], 14) = 255 /\ At(content.blocks[2], 14) = 1
    /\ self_rows[1].muscle_mass = 450 /\ self_rows[1].body_fat = 143
    /\ self_rows[1] = self_rows[2]

-----------------------------------------------------------------------------
(* The script: python processor.py -i INFILE -f FORMAT -o OUTFILE           *)

Formats == {"json", "csv", "blah"}

Outputs == {"stdout", "BODYDATA.CSV"}

\* the files the script is run on: at most one full block
MainContents == { c \in Contents : Len(c.blocks) <= 1 }

\* before the main block runs; source_path is the given input path when it
\* names a file, and also when neither it nor the path beside the script does
\* (expanduser leaves a path without ~ as it is)
MainInit ==
    /\ arguments \in [input : Paths, format : Formats, output : Outputs]
    /\ file_path_or_object = StrArg(arguments.input)
    /\ \/ disk = "missing" /\ content = EmptyContent
       \/ disk = "file" /\ content \in MainContents
    /\ stream_open = FALSE
    /\ file_object = "None"
    /\ offset = 0
    /\ n_reads = 0
    /\ self_rows = <<>>
    /\ pc = "idle"
    /\ exc = NoExc
    /\ last_read = NoRead
    /\ stderr = <<>>
    /\ main_pc = "start"

\* docopt, the resolution of source_path and the call BodyData(source_path)
MainStart ==
    /\ main_pc = "start"
    /\ main_pc' = "constructing"
    /\ pc' = "init"
    /\ UNCHANGED <<file_path_or_object, disk, content, file_object, stream_open,
                   offset, n_reads, self_rows, exc, last_read, arguments, stderr>>

\* the constructor has returned: the branches on --format and --output, each
\* of which is a pass; there is no branch for another format
MainDispatch ==
    /\ main_pc = "constructing" /\ pc = "returned"
    /\ IF arguments.format = "json"
       THEN (IF arguments.output = "stdout" THEN stderr' = stderr
             ELSE stderr' = stderr)
       ELSE IF arguments.format = "csv"
       THEN (IF arguments.output = "stdout" THEN stderr' = stderr
             ELSE stderr' = stderr)
       ELSE stderr' = stderr
    /\ main_pc' = "done"
    /\ UNCHANGED <<decoder_vars, last_read, arguments>>

\* except (TypeError, ValueError) as e: print(str(e), file=sys.stderr)
MainExcept ==
    /\ main_pc = "constructing" /\ pc = "raised"
    /\ exc.type \in {"TypeError", "ValueError"}
    /\ stderr' = Append(stderr, exc.msg)
    /\ main_pc' = "done"
    /\ UNCHANGED <<decoder_vars, last_read, arguments>>

MainNext == MainStart \/ Next \/ MainDispatch \/ MainExcept

MainSpec == MainInit /\ [][MainNext]_vars

\* C13 as stated: run with a --format other than json and csv on an input
\* that decodes, the script writes the one line "Format, '<fmt>' is invalid"
\* to standard error.
C13_InvalidFormatReported ==
    ( /\ main_pc = "done" /\ pc = "returned"
      /\ arguments.format \notin {"json", "csv"} )
    => stderr = << <<"Format, '", arguments.format, "' is invalid">> >>

====
